---- MODULE Spec2Model ----
(***************************************************************************)
(* A model of src/index.js: chat rooms, the per-user room index and the    *)
(* messages of a room, kept in Firestore documents.                        *)
(*                                                                         *)
(* The Firestore collections are the shared state.  Every store call of    *)
(* the source (get, set, update) is one atomic step of the store; the      *)
(* code between two store calls of one operation runs in the step of the   *)
(* store call whose result it waits for.  Operations of different clients  *)
(* interleave at the store calls.                                          *)
(*                                                                         *)
(* DocumentReference of the Firestore SDK has get, set, update, delete,    *)
(* collection and onSnapshot; it has no remove.  The calls                 *)
(* chatRoomRef.remove(...) of the source therefore throw a TypeError and   *)
(* delete nothing: no document of the model is ever deleted.               *)
(*                                                                         *)
(* class ChatRoom declares two constructors (lines 110 and 119).  The      *)
(* model follows the functions as written: joinChatRoom resolves to        *)
(* new ChatRoom(chatRoomRef, room), the constructor of line 119, whose     *)
(* members are those of the snapshot the join read, with the new member    *)
(* pushed.  createChatRoom returns nothing to its caller.                  *)
(***************************************************************************)
EXTENDS Integers, Sequences, FiniteSets, Bags, TLC

\* ------------------------------------------------------------- bounds
MaxRooms == 4        \* room ids the store can hand out
MaxLiveRooms == 1    \* rooms created in Spec and SpecMsg
MaxIndexRooms == 2   \* rooms created in SpecIndex
MaxRemoves == 2      \* soft removes counted per room
MaxListRooms == 2    \* rooms created in SpecList
MaxMsgs == 2         \* messages sent
MaxClock == 1        \* readings of Date.now()

\* ------------------------------------------------------------- values
Users == {"u1", "u2", "u3"}

RoomIds == 1 .. MaxRooms
MsgIds == 1 .. MaxMsgs

\* The clients that call joinChatRoom, one call each.
JoinIds == {"j1", "j2"}

\* A JavaScript value handed to the API: its type and, for a string, its text;
\* an object is one carrying a userId.
Str(s) == [t |-> "string", v |-> s]
Obj(u) == [t |-> "object", v |-> u]
Undefined == [t |-> "undefined", v |-> ""]
NotAString == [t |-> "number", v |-> "5"]
Zero == [t |-> "number", v |-> "0"]

\* lodash: _.isString(x)
isString(x) == x.t = "string"

\* lodash: _.isObject(x)
isObject(x) == x.t = "object"

\* lodash: _.isEmpty(x); a number and undefined are "empty", an object with a
\* key is not
isEmpty(x) == IF x.t = "string" THEN x.v = "" ELSE x.t # "object"

\* JavaScript truthiness of x (used by `member.username && ...`)
truthy(x) ==
    IF x.t = "string" THEN x.v # ""
    ELSE IF x.t = "number" THEN x.v # "0"
    ELSE x.t = "object"

\* A member as a caller passes it.
Member(u) == [userId |-> Str(u), username |-> Undefined, photo |-> Undefined]

\* ------------------------------------------------------------- state
VARIABLES
    ChatRooms,     \* collection 'ChatRooms': room id -> document
    UsersChat,     \* collection 'UsersChat': user id -> the keys of the document
    messages,      \* the 'messages' documents of the rooms: message id -> document
    indexing,      \* bag of addToMemberConversations calls in flight
    joins,         \* the joinChatRoom calls, and the ChatRoom each resolved to
    titleOps,      \* the setNewTitle call made on the ChatRoom of each join
    softRemoves,   \* room id -> soft removes applied to the document
    edits,         \* the updateBody call made on each Message
    mutual,        \* the removeMutualChatRooms call
    mutualWrites,  \* room ids whose update removeMutualChatRooms has issued
    thrown,        \* the latest error an API call threw synchronously
    now,           \* Date.now()
    listing,       \* the getUserChatRooms call
    listener       \* the getMessagesAndListen call and what its action received

vars == <<ChatRooms, UsersChat, messages, indexing, joins, titleOps, softRemoves,
          edits, mutual, mutualWrites, thrown, now, listing, listener>>

NoDoc == [exists |-> FALSE]
NoError == [op |-> "none", err |-> "none"]
NoSnap == [exists |-> FALSE, keys |-> {}]

\* A document that was deleted from the store.
Deleted == [exists |-> FALSE, deleted |-> TRUE]

\* firebase().collection('ChatRooms').doc(): an id no document ever had
FreshRoomIds ==
    {r \in RoomIds : ChatRooms[r] = NoDoc /\ \A q \in RoomIds : q < r => ChatRooms[q] # NoDoc}

\* No getUserChatRooms call yet.
NotListing ==
    [pc |-> "idle", ids |-> {}, pending |-> {}, list |-> <<>>, calls |-> 0,
     err |-> "none", chats |-> <<>>, threw |-> FALSE]

\* No getMessagesAndListen call yet.
NotListening ==
    [pc |-> "idle", j |-> "", view |-> [m \in MsgIds |-> NoDoc], added |-> <<>>,
     received |-> <<>>, err |-> "none", cancelled |-> FALSE]

\* chatRoomRef.collection("messages").doc(): an id no message has yet
FreshMsgIds ==
    {m \in MsgIds : ~messages[m].exists /\ \A q \in MsgIds : q < m => messages[q].exists}

\* The userIds of a persisted member list.
MemberIds(members) == {members[i] : i \in 1 .. Len(members)}

\* The rooms that exist.
LiveRooms == {r \in RoomIds : ChatRooms[r].exists}

Init ==
    /\ ChatRooms = [r \in RoomIds |-> NoDoc]
    /\ UsersChat = [u \in Users |-> NoSnap]
    /\ messages = [m \in MsgIds |-> NoDoc]
    /\ indexing = EmptyBag
    /\ joins = [j \in JoinIds |-> [pc |-> "idle"]]
    /\ titleOps = [j \in JoinIds |-> [pc |-> "idle", title |-> "", cb |-> ""]]
    /\ softRemoves = [r \in RoomIds |-> 0]
    /\ edits = [m \in MsgIds |-> [pc |-> "idle", body |-> "", updatedAt |-> 0, cb |-> ""]]
    /\ mutual = [pc |-> "idle", userA |-> "", userB |-> "", softRemove |-> FALSE,
                 userARef |-> NoSnap, userBRef |-> NoSnap, err |-> "none"]
    /\ mutualWrites = {}
    /\ thrown = NoError
    /\ now = 0
    /\ listing = NotListing
    /\ listener = NotListening

\* The variables the room, index and join operations never touch.
rest == <<messages, titleOps, softRemoves, edits, mutual, mutualWrites, now,
          listing, listener>>
others == <<joins, messages, titleOps, softRemoves, edits, mutual, mutualWrites, now,
            listing, listener>>

\* ------------------------------------------------------------- createChatRoom
\* src/index.js:29  the title check
titleInvalid(title) == isEmpty(title) \/ ~isString(title)

\* src/index.js:32-39  the checks on one member
memberInvalid(m) ==
    \/ isEmpty(m.userId) \/ ~isString(m.userId)
    \/ (truthy(m.username) /\ ~isString(m.username))
    \/ (truthy(m.photo) /\ ~isString(m.photo))

\* The member list as the room document keeps it.  A member object is carried
\* through the store unread except for its userId, which stands for it here.
userIdsOf(members) == [i \in 1 .. Len(members) |-> members[i].userId.v]

\* One addToMemberConversations call per entry of a member list, each at its get.
callsFor(ids, chatKey) ==
    LET S == {[memberId |-> ids[i], chatKey |-> chatKey, pc |-> "get"] : i \in 1 .. Len(ids)}
    IN  [t \in S |-> Cardinality({i \in 1 .. Len(ids) : ids[i] = t.memberId})]

\* The document createChatRoom writes (src/index.js:45-51).
newRoomDoc(title, members) ==
    [exists |-> TRUE, title |-> title.v, members |-> userIdsOf(members),
     createdAt |-> now, isRemoved |-> FALSE, isOpen |-> TRUE]

createChatRoom(title, members) ==
    IF titleInvalid(title) \/ \E i \in 1 .. Len(members) : memberInvalid(members[i])
    THEN /\ thrown' = [op |-> "createChatRoom", err |-> "ChatRoomError"]
         /\ UNCHANGED <<ChatRooms, UsersChat, indexing>>
         /\ UNCHANGED others
    ELSE \E id \in FreshRoomIds :
         /\ ChatRooms' = [ChatRooms EXCEPT ![id] = newRoomDoc(title, members)]
         /\ indexing' = indexing (+) callsFor(userIdsOf(members), id)
         /\ UNCHANGED <<UsersChat, thrown>>
         /\ UNCHANGED others

\* ------------------------------------------------------------- addToMemberConversations
\* chatRef.get().then(snap => ...): the branch is chosen on the snapshot
addToMemberConversationsGet(t) ==
    /\ BagIn(t, indexing) /\ t.pc = "get"
    /\ indexing' = (indexing (-) SetToBag({t})) (+)
           SetToBag({[t EXCEPT !.pc = IF UsersChat[t.memberId].exists THEN "update" ELSE "set"]})
    /\ UNCHANGED <<ChatRooms, UsersChat, joins, thrown>>
    /\ UNCHANGED rest

\* chatRef.update({[chatKey]: chatKey}): adds the key to the document
addToMemberConversationsUpdate(t) ==
    /\ BagIn(t, indexing) /\ t.pc = "update"
    /\ UsersChat[t.memberId].exists
    /\ UsersChat' = [UsersChat EXCEPT ![t.memberId].keys = @ \cup {t.chatKey}]
    /\ indexing' = indexing (-) SetToBag({t})
    /\ UNCHANGED <<ChatRooms, joins, thrown>>
    /\ UNCHANGED rest

\* chatRef.set({[chatKey]: chatKey}): replaces the document
addToMemberConversationsSet(t) ==
    /\ BagIn(t, indexing) /\ t.pc = "set"
    /\ UsersChat' = [UsersChat EXCEPT ![t.memberId] = [exists |-> TRUE, keys |-> {t.chatKey}]]
    /\ indexing' = indexing (-) SetToBag({t})
    /\ UNCHANGED <<ChatRooms, joins, thrown>>
    /\ UNCHANGED rest

\* ------------------------------------------------------------- joinChatRoom
\* joinError with the open-check made before the removed-check.
joinErrorOpenFirst(doc) ==
    IF ~doc.exists THEN "NotFound"
    ELSE IF ~doc.isOpen THEN "Private"
    ELSE IF doc.isRemoved THEN "AlreadyRemoved"
    ELSE "none"

\* The checks on the snapshot, in the order of the source (src/index.js:80-89).
joinError(doc) ==
    IF ~doc.exists THEN "NotFound"
    ELSE IF doc.isRemoved THEN "AlreadyRemoved"
    ELSE IF ~doc.isOpen THEN "Private"
    ELSE "none"

\* joinChatRoomGet recording the joiner in the index before the checks.
joinChatRoomGetIndexFirst(j, id, userId) ==
    /\ joins[j].pc = "idle"
    /\ LET doc == ChatRooms[id]
           err == joinError(doc)
       IN  joins' = [joins EXCEPT ![j] =
             IF err # "none"
             THEN [pc |-> "failed", id |-> id, userId |-> userId, err |-> err]
             ELSE [pc |-> "update", id |-> id, userId |-> userId, err |-> "none",
                   room |-> [doc EXCEPT !.members = Append(@, userId), !.isOpen = FALSE]]]
    /\ indexing' = indexing (+) callsFor(<<userId>>, id)
    /\ UNCHANGED <<ChatRooms, UsersChat, thrown>>
    /\ UNCHANGED rest

\* chatRoomRef.get().then(doc => ...) up to the update call
joinChatRoomGet(j, id, userId) ==
    /\ joins[j].pc = "idle"
    /\ LET doc == ChatRooms[id]
           err == joinError(doc)
       IN  joins' = [joins EXCEPT ![j] =
             IF err # "none"
             THEN [pc |-> "failed", id |-> id, userId |-> userId, err |-> err]
             ELSE [pc |-> "update", id |-> id, userId |-> userId, err |-> "none",
                   room |-> [doc EXCEPT !.members = Append(@, userId), !.isOpen = FALSE]]]
    /\ UNCHANGED <<ChatRooms, UsersChat, indexing, thrown>>
    /\ UNCHANGED rest

\* chatRoomRef.update({members, isOpen: false}).then(() => ...)
joinChatRoomUpdate(j) ==
    /\ joins[j].pc = "update"
    /\ ChatRooms' = [ChatRooms EXCEPT ![joins[j].id].members = joins[j].room.members,
                                      ![joins[j].id].isOpen = FALSE]
    /\ indexing' = indexing (+) callsFor(<<joins[j].userId>>, joins[j].id)
    /\ joins' = [joins EXCEPT ![j].pc = "done"]
    /\ UNCHANGED <<UsersChat, thrown>>
    /\ UNCHANGED rest


\* ------------------------------------------------------------- ChatRoom.setNewTitle
\* The ChatRoom object of join j: new ChatRoom(chatRoomRef, room), src/index.js:95.
hasChatRoom(j) == joins[j].pc = "done"

\* The call: the check, the update call and `onComplete(title)`, which the
\* source evaluates as the argument of then(), before the update is applied.
setNewTitle(j, title) ==
    /\ hasChatRoom(j) /\ titleOps[j].pc = "idle"
    /\ IF ~isString(title) \/ isEmpty(title)
       THEN /\ thrown' = [op |-> "setNewTitle", err |-> "ChatRoomError"]
            /\ UNCHANGED titleOps
       ELSE /\ titleOps' = [titleOps EXCEPT ![j] = [pc |-> "update", title |-> title.v, cb |-> title.v]]
            /\ UNCHANGED thrown
    /\ UNCHANGED <<ChatRooms, UsersChat, messages, indexing, joins, softRemoves,
                   edits, mutual, mutualWrites, now, listing, listener>>

\* this.chatRoomRef.update({title}) applied by the store
setNewTitleUpdate(j) ==
    /\ titleOps[j].pc = "update"
    /\ ChatRooms' = [ChatRooms EXCEPT ![joins[j].id].title = titleOps[j].title]
    /\ titleOps' = [titleOps EXCEPT ![j].pc = "done"]
    /\ UNCHANGED <<UsersChat, messages, indexing, joins, softRemoves,
                   edits, mutual, mutualWrites, thrown, now, listing, listener>>

\* ------------------------------------------------------------- ChatRoom.remove
\* softRemoved flipping the flag instead of setting it.
softRemovedFlip(doc) == [doc EXCEPT !.isRemoved = ~@]

\* chatRoomRef.update({isRemoved: true}) on a document
softRemoved(doc) == [doc EXCEPT !.isRemoved = TRUE]

remove(j, softRemove) ==
    /\ hasChatRoom(j)
    /\ IF softRemove
       THEN /\ softRemoves[joins[j].id] < MaxRemoves
            /\ ChatRooms' = [ChatRooms EXCEPT ![joins[j].id] = softRemoved(@)]
            /\ softRemoves' = [softRemoves EXCEPT ![joins[j].id] = @ + 1]
            /\ UNCHANGED thrown
       ELSE \* this.chatRoomRef.remove is not a function
            /\ thrown' = [op |-> "remove", err |-> "TypeError"]
            /\ UNCHANGED <<ChatRooms, softRemoves>>
    /\ UNCHANGED <<UsersChat, messages, indexing, joins, titleOps,
                   edits, mutual, mutualWrites, now, listing, listener>>

\* ------------------------------------------------------------- Message
\* src/index.js:349 and 353: the test of a userId against chatRoom.members[0]
\* and chatRoom.members[1]; reading .userId of a missing entry is a TypeError.
\* (members is 1-based here.)
inRoomError(userId, members) ==
    IF Len(members) = 0 THEN "TypeError"
    ELSE IF members[1] = userId THEN "none"
    ELSE IF Len(members) < 2 THEN "TypeError"
    ELSE IF members[2] = userId THEN "none"
    ELSE "MessageError"

\* The checks of the constructor, in order (src/index.js:340-354).
messageError(body, from, members) ==
    IF isEmpty(body) \/ ~isString(body) THEN "MessageError"
    ELSE IF isEmpty(from) THEN "MessageError"
    ELSE IF isString(from) /\ inRoomError(from.v, members) # "none"
         THEN inRoomError(from.v, members)
    ELSE IF isObject(from) /\ inRoomError(from.v, members) # "none"
         THEN inRoomError(from.v, members)
    ELSE "none"

\* ChatRoom.sendMessage: new Message(body, from, this, onComplete).  The members
\* tested are those of the ChatRoom object, as the join read them.
sendMessage(j, body, from) ==
    /\ hasChatRoom(j)
    /\ LET err == messageError(body, from, joins[j].room.members)
       IN  IF err # "none"
           THEN /\ thrown' = [op |-> "sendMessage", err |-> err]
                /\ UNCHANGED messages
           ELSE \E m \in FreshMsgIds :
                /\ messages' = [messages EXCEPT ![m] =
                       [exists |-> TRUE, room |-> joins[j].id, body |-> body.v,
                        from |-> from.v, createdAt |-> now,
                        updated |-> FALSE, updatedAt |-> 0]]
                /\ UNCHANGED thrown
    /\ UNCHANGED <<ChatRooms, UsersChat, indexing, joins, titleOps, softRemoves,
                   edits, mutual, mutualWrites, now, listing, listener>>

\* Message.updateBody, the call: the check, this.updatedAt, the update call and
\* `callback(newBody)`, evaluated as the argument of then().
updateBody(m, newBody) ==
    /\ messages[m].exists /\ edits[m].pc = "idle"
    /\ IF isEmpty(newBody) \/ ~isString(newBody)
       THEN /\ thrown' = [op |-> "updateBody", err |-> "MessageError"]
            /\ UNCHANGED edits
       ELSE /\ edits' = [edits EXCEPT ![m] =
                  [pc |-> "update", body |-> newBody.v, updatedAt |-> now, cb |-> newBody.v]]
            /\ UNCHANGED thrown
    /\ UNCHANGED <<ChatRooms, UsersChat, messages, indexing, joins, titleOps,
                   softRemoves, mutual, mutualWrites, now, listing, listener>>

\* this.messageRef.update({body, updatedAt}) applied by the store
updateBodyUpdate(m) ==
    /\ edits[m].pc = "update"
    /\ messages' = [messages EXCEPT ![m].body = edits[m].body,
                                    ![m].updated = TRUE,
                                    ![m].updatedAt = edits[m].updatedAt]
    /\ edits' = [edits EXCEPT ![m].pc = "done"]
    /\ UNCHANGED <<ChatRooms, UsersChat, indexing, joins, titleOps, softRemoves,
                   mutual, mutualWrites, thrown, now, listing, listener>>

\* Date.now() moves on.
Tick ==
    /\ now < MaxClock
    /\ now' = now + 1
    /\ UNCHANGED <<ChatRooms, UsersChat, messages, indexing, joins, titleOps,
                   softRemoves, edits, mutual, mutualWrites, thrown, listing, listener>>

\* ------------------------------------------------------------- removeMutualChatRooms
\* mutualIds without the includes test.
mutualIdsAllOfB(userAChats, userBChats) == userBChats

\* The ids the forEach acts on: the keys of userB's record that userAChats includes.
mutualIds(userAChats, userBChats) == {id \in userBChats : id \in userAChats}

\* recordMissing looking at userA's snapshot only.
recordMissingOnlyA(userARef, userBRef) == ~userARef.exists

\* Object.keys(userARef.data()) or Object.keys(userBRef.data()) is handed
\* undefined: one of the two records does not exist.
recordMissing(userARef, userBRef) == ~userARef.exists \/ ~userBRef.exists

\* await ...doc(userA).get()
removeMutualChatRoomsGetA(userA, userB, softRemove) ==
    /\ mutual.pc = "idle"
    /\ mutual' = [pc |-> "getB", userA |-> userA, userB |-> userB, softRemove |-> softRemove,
                  userARef |-> UsersChat[userA], userBRef |-> NoSnap, err |-> "none"]
    /\ UNCHANGED <<ChatRooms, UsersChat, messages, indexing, joins, titleOps,
                   softRemoves, edits, mutualWrites, thrown, now, listing, listener>>

\* await ...doc(userB).get(), and the code after it: data() of a snapshot that
\* does not exist is undefined, and Object.keys(undefined) is a TypeError that
\* rejects the promise of the async function; so does chatRoomRef.remove().
removeMutualChatRoomsGetB ==
    /\ mutual.pc = "getB"
    /\ LET userBRef == UsersChat[mutual.userB]
           ids == mutualIds(mutual.userARef.keys, userBRef.keys)
       IN  IF recordMissing(mutual.userARef, userBRef)
           THEN /\ mutual' = [mutual EXCEPT !.pc = "rejected", !.userBRef = userBRef,
                                            !.err = "TypeError"]
                /\ UNCHANGED mutualWrites
           ELSE IF mutual.softRemove
           THEN /\ mutual' = [mutual EXCEPT !.pc = "resolved", !.userBRef = userBRef]
                /\ mutualWrites' = ids
           ELSE /\ mutual' = [mutual EXCEPT !.pc = IF ids = {} THEN "resolved" ELSE "rejected",
                                            !.userBRef = userBRef,
                                            !.err = IF ids = {} THEN "none" ELSE "TypeError"]
                /\ UNCHANGED mutualWrites
    /\ UNCHANGED <<ChatRooms, UsersChat, messages, indexing, joins, titleOps,
                   softRemoves, edits, thrown, now, listing, listener>>

\* one chatRoomRef.update({isRemoved: true}) of the forEach applied by the store
removeMutualChatRoomsUpdate(id) ==
    /\ id \in mutualWrites
    /\ ChatRooms[id].exists
    /\ ChatRooms' = [ChatRooms EXCEPT ![id] = softRemoved(@)]
    /\ mutualWrites' = mutualWrites \ {id}
    /\ UNCHANGED <<UsersChat, messages, indexing, joins, titleOps, softRemoves,
                   edits, mutual, thrown, now, listing, listener>>

\* ------------------------------------------------------------- ChatRoom.getUserChatRooms
\* listComplete after the first room.
listCompleteAny(list, ids) == Len(list) >= 1

\* `list.length == ids.length`: the test that invokes onComplete
listComplete(list, ids) == Len(list) = Cardinality(ids)

\* The call, and the then() of userChatRoomsRef.get(): the check on user, the
\* branch on doc.exists, and one chatRoomRef.get() issued for every key.
getUserChatRooms(user) ==
    /\ listing.pc = "idle"
    /\ IF isEmpty(user)
       THEN /\ thrown' = [op |-> "getUserChatRooms", err |-> "ChatRoomError"]
            /\ UNCHANGED listing
       ELSE /\ listing' =
                 IF ~UsersChat[user.v].exists
                 THEN [NotListing EXCEPT !.pc = "done", !.calls = 1,
                                         !.err = "User has no chat rooms"]
                 ELSE [NotListing EXCEPT !.pc = "loading", !.ids = UsersChat[user.v].keys,
                                         !.pending = UsersChat[user.v].keys]
            /\ UNCHANGED thrown
    /\ UNCHANGED <<ChatRooms, UsersChat, messages, indexing, joins, titleOps, softRemoves,
                   edits, mutual, mutualWrites, now, listener>>

\* The then() of one chatRoomRef.get(): a document that does not exist is
\* skipped; reading snap.members[1].userId of a room with fewer than two
\* members is a TypeError that ends the callback; otherwise the room is pushed
\* and onComplete is invoked if the list is complete.
getUserChatRoomsLoad(id) ==
    /\ listing.pc = "loading" /\ id \in listing.pending
    /\ LET doc == ChatRooms[id]
           list == Append(listing.list, id)
       IN  listing' =
             IF ~doc.exists
             THEN [listing EXCEPT !.pending = @ \ {id}]
             ELSE IF Len(doc.members) < 2
             THEN [listing EXCEPT !.pending = @ \ {id}, !.threw = TRUE]
             ELSE IF listComplete(list, listing.ids)
             THEN [listing EXCEPT !.pending = @ \ {id}, !.list = list,
                                  !.calls = @ + 1, !.chats = list]
             ELSE [listing EXCEPT !.pending = @ \ {id}, !.list = list]
    /\ UNCHANGED <<ChatRooms, UsersChat, messages, indexing, joins, titleOps, softRemoves,
                   edits, mutual, mutualWrites, thrown, now, listener>>

\* A room document deleted from the store by another client of the database.
\* No call of this library deletes one (see remove); getUserChatRooms
\* provides for it with its test of doc.exists.
deleteRoom(r) ==
    /\ ChatRooms[r].exists
    /\ ChatRooms' = [ChatRooms EXCEPT ![r] = Deleted]
    /\ UNCHANGED <<UsersChat, messages, indexing, joins, titleOps, softRemoves,
                   edits, mutual, mutualWrites, thrown, now, listing, listener>>

\* ------------------------------------------------------------- ChatRoom.getMessagesAndListen
\* The 'messages' documents of a room, as a snapshot of the collection has them.
roomMessages(id) ==
    [m \in MsgIds |-> IF messages[m].exists /\ messages[m].room = id THEN messages[m] ELSE NoDoc]

\* change.type of document m in a snapshot new that follows the snapshot old
changeType(m, old, new) ==
    IF old[m] = NoDoc /\ new[m] # NoDoc THEN "added"
    ELSE IF old[m] # new[m] THEN "modified"
    ELSE "none"

\* The documents docChanges() reports as added, in the order of the query.
addedIn(old, new) ==
    SelectSeq([m \in MsgIds |-> m], LAMBDA m : changeType(m, old, new) = "added")

\* snapshot.docChanges().forEach(change => ...) from document m on: for an
\* added document, new Message(body, from, this, undefined, messageRef) runs
\* the checks of the constructor against the members of this ChatRoom, and an
\* error it throws ends the forEach; action is invoked otherwise.
RECURSIVE forEachChange(_, _, _, _, _)
forEachChange(m, old, new, members, received) ==
    IF m > MaxMsgs THEN [received |-> received, err |-> "none"]
    ELSE IF changeType(m, old, new) = "added"
    THEN LET err == messageError(Str(new[m].body), Str(new[m].from), members)
         IN  IF err # "none"
             THEN [received |-> received, err |-> err]
             ELSE forEachChange(m + 1, old, new, members, Append(received, m))
    ELSE forEachChange(m + 1, old, new, members, received)

\* The call: onSnapshot attaches the listener; nothing is returned.
getMessagesAndListen(j) ==
    /\ hasChatRoom(j) /\ listener.pc = "idle"
    /\ listener' = [NotListening EXCEPT !.pc = "listening", !.j = j]
    /\ UNCHANGED <<ChatRooms, UsersChat, messages, indexing, joins, titleOps, softRemoves,
                   edits, mutual, mutualWrites, thrown, now, listing>>

\* One snapshot handed to the listener: the whole callback.
onSnapshot ==
    /\ listener.pc = "listening"
    /\ LET new == roomMessages(joins[listener.j].id)
           out == forEachChange(1, listener.view, new, joins[listener.j].room.members,
                                listener.received)
       IN  /\ new # listener.view
           /\ listener' = [listener EXCEPT !.view = new,
                                           !.added = @ \o addedIn(listener.view, new),
                                           !.received = out.received,
                                           !.err = out.err]
    /\ UNCHANGED <<ChatRooms, UsersChat, messages, indexing, joins, titleOps, softRemoves,
                   edits, mutual, mutualWrites, thrown, now, listing>>

\* The caller cancels with what getMessagesAndListen handed back.  The
\* function onSnapshot returns, which detaches the listener, is dropped, and
\* the method returns undefined: calling it is a TypeError and the listener
\* stays attached.
unsubscribe ==
    /\ listener.pc = "listening" /\ ~listener.cancelled
    /\ listener' = [listener EXCEPT !.cancelled = TRUE]
    /\ thrown' = [op |-> "unsubscribe", err |-> "TypeError"]
    /\ UNCHANGED <<ChatRooms, UsersChat, messages, indexing, joins, titleOps, softRemoves,
                   edits, mutual, mutualWrites, now, listing>>

\* ------------------------------------------------------------- inputs
\* What the callers pass to createChatRoom, valid and not.
CreateTitles == {Str("Trip"), Str(""), NotAString}
CreateMembers ==
    { <<Member("u1")>>,
      <<Member("u1"), Member("u2")>>,
      <<Member("u1"), Member("u3")>>,
      <<Member("u1"), [Member("u2") EXCEPT !.userId = Str("")]>>,
      <<Member("u1"), [Member("u2") EXCEPT !.username = NotAString]>>,
      <<[Member("u1") EXCEPT !.photo = NotAString], Member("u2")>>,
      <<Member("u1"), [Member("u2") EXCEPT !.photo = Zero]>> }

\* The member lists rooms are created with where joins are studied.
RoomMembers == { <<Member("u1")>>, <<Member("u1"), Member("u2")>> }

\* The member lists rooms are created with where messages are studied.
MsgRoomMembers == { <<>>, <<Member("u1")>>, <<Member("u1"), Member("u2")>> }

\* The pairs rooms are created with where mutual rooms are studied.
PairMembers ==
    { <<Member("u1"), Member("u2")>>,
      <<Member("u1"), Member("u3")>>,
      <<Member("u2"), Member("u3")>> }

\* The member lists rooms are created with where the rooms of a user are listed.
ListRoomMembers ==
    { <<Member("u1")>>,
      <<Member("u1"), Member("u2")>>,
      <<Member("u1"), Member("u3")>> }

\* What the callers pass to getUserChatRooms.
ListUsers == {Str("u1"), Obj("u1"), Str("u3"), Str("")}

\* The senders of the messages a listener is handed.
ListenFroms == {Str("u2"), Str("u3")}

NewTitles == {Str("Renamed"), Str("")}
Bodies == {Str("hi"), Str("")}
NewBodies == {Str("edited"), Str("")}
Froms == {Str("u2"), Str("u3"), Obj("u3"), Undefined}
Joiners == {"u2", "u3"}

\* A join names a room that exists or an id that does not exist yet.
JoinTargets == LiveRooms \cup FreshRoomIds

\* ------------------------------------------------------------- specifications
addToMemberConversations ==
    \/ \E t \in BagToSet(indexing) : addToMemberConversationsGet(t)
    \/ \E t \in BagToSet(indexing) : addToMemberConversationsUpdate(t)
    \/ \E t \in BagToSet(indexing) : addToMemberConversationsSet(t)

\* The life of a room: creation, concurrent joins, and soft removal through
\* the ChatRoom objects the joins return.
Next ==
    \/ \E members \in RoomMembers :
          Cardinality(LiveRooms) < MaxLiveRooms /\ createChatRoom(Str("Trip"), members)
    \/ addToMemberConversations
    \/ \E j \in JoinIds, id \in JoinTargets, userId \in Joiners : joinChatRoomGet(j, id, userId)
    \/ \E j \in JoinIds : joinChatRoomUpdate(j)
    \/ \E j \in JoinIds : remove(j, TRUE)

Spec == Init /\ [][Next]_vars

\* The life of a room with every operation of the ChatRoom objects: title
\* changes, soft and hard removal.
NextTitle ==
    \/ \E members \in RoomMembers :
          Cardinality(LiveRooms) < MaxLiveRooms /\ createChatRoom(Str("Trip"), members)
    \/ addToMemberConversations
    \/ \E j \in JoinIds, id \in JoinTargets, userId \in Joiners : joinChatRoomGet(j, id, userId)
    \/ \E j \in JoinIds : joinChatRoomUpdate(j)
    \/ \E j \in JoinIds, title \in NewTitles : setNewTitle(j, title)
    \/ \E j \in JoinIds : setNewTitleUpdate(j)
    \/ \E j \in JoinIds, softRemove \in BOOLEAN : remove(j, softRemove)

SpecTitle == Init /\ [][NextTitle]_vars

\* Concurrent joins of one room, and the messages sent through the ChatRoom
\* objects they return.
NextSend ==
    \/ \E members \in RoomMembers :
          Cardinality(LiveRooms) < MaxLiveRooms /\ createChatRoom(Str("Trip"), members)
    \/ addToMemberConversations
    \/ \E j \in JoinIds, id \in JoinTargets, userId \in Joiners : joinChatRoomGet(j, id, userId)
    \/ \E j \in JoinIds : joinChatRoomUpdate(j)
    \/ \E j \in JoinIds, from \in Froms : sendMessage(j, Str("hi"), from)

SpecSend == Init /\ [][NextSend]_vars

\* Rooms created concurrently, and the index records of their members.
NextIndex ==
    \/ \E title \in CreateTitles, members \in CreateMembers :
          Cardinality(LiveRooms) < MaxIndexRooms /\ createChatRoom(title, members)
    \/ addToMemberConversations

SpecIndex == Init /\ [][NextIndex]_vars

\* One room, one join, and the messages sent and edited through the ChatRoom
\* it returns, with the inputs the checks reject.
NextMsg ==
    \/ \E members \in MsgRoomMembers :
          Cardinality(LiveRooms) < MaxLiveRooms /\ createChatRoom(Str("Trip"), members)
    \/ addToMemberConversations
    \/ \E id \in JoinTargets, userId \in Joiners : joinChatRoomGet("j1", id, userId)
    \/ joinChatRoomUpdate("j1")
    \/ \E body \in Bodies, from \in Froms : sendMessage("j1", body, from)
    \/ \E m \in MsgIds, newBody \in NewBodies : updateBody(m, newBody)
    \/ \E m \in MsgIds : updateBodyUpdate(m)
    \/ Tick

SpecMsg == Init /\ [][NextMsg]_vars

\* Rooms of two members created one after the other, and one
\* removeMutualChatRooms call running beside them.
NextMutual ==
    \/ \E members \in PairMembers :
          indexing = EmptyBag /\ createChatRoom(Str("Trip"), members)
    \/ addToMemberConversations
    \/ \E softRemove \in BOOLEAN : removeMutualChatRoomsGetA("u1", "u2", softRemove)
    \/ removeMutualChatRoomsGetB
    \/ \E id \in RoomIds : removeMutualChatRoomsUpdate(id)

SpecMutual == Init /\ [][NextMutual]_vars

\* Rooms created one after the other, some deleted from the store, and one
\* getUserChatRooms call running beside them.
NextList ==
    \/ \E members \in ListRoomMembers :
          /\ indexing = EmptyBag
          /\ Cardinality({r \in RoomIds : ChatRooms[r] # NoDoc}) < MaxListRooms
          /\ createChatRoom(Str("Trip"), members)
    \/ addToMemberConversations
    \/ \E r \in RoomIds : deleteRoom(r)
    \/ \E user \in ListUsers : getUserChatRooms(user)
    \/ \E id \in RoomIds : getUserChatRoomsLoad(id)

SpecList == Init /\ [][NextList]_vars

\* One room, two users joining it, the messages they send and edit, and one
\* listener attached to the ChatRoom of a join.
NextListen ==
    \/ Cardinality(LiveRooms) < MaxLiveRooms /\ createChatRoom(Str("Trip"), <<Member("u1")>>)
    \/ addToMemberConversations
    \/ \E j \in JoinIds, id \in LiveRooms, userId \in Joiners : joinChatRoomGet(j, id, userId)
    \/ \E j \in JoinIds : joinChatRoomUpdate(j)
    \/ \E j \in JoinIds, from \in ListenFroms : sendMessage(j, Str("hi"), from)
    \/ \E m \in MsgIds : updateBody(m, Str("edited"))
    \/ \E m \in MsgIds : updateBodyUpdate(m)
    \/ \E j \in JoinIds : getMessagesAndListen(j)
    \/ onSnapshot
    \/ unsubscribe

SpecListen == Init /\ [][NextListen]_vars

\* ------------------------------------------------------------- claims
\* Claims about joins are stated with the error names of the specification:
\* "NotFound", "AlreadyRemoved" and "Private" are the three ChatRoomErrors
\* joinChatRoom throws.

\* C1: of two joinChatRoom calls on the same room, at most one succeeds.
C1_OneJoinSucceeds ==
    \A j1 \in JoinIds, j2 \in JoinIds :
        (j1 # j2 /\ joins[j1].pc = "done" /\ joins[j2].pc = "done")
            => joins[j1].id # joins[j2].id

\* C2: a join that reads a removed room fails with AlreadyRemoved (whatever
\* isOpen is), and a join that reads a room that is not removed and not open
\* fails with Private.
C2_JoinRejected ==
    [][\A j \in JoinIds :
        (joins[j].pc = "idle" /\ joins'[j].pc # "idle") =>
            LET doc == ChatRooms[joins'[j].id]
            IN  /\ (doc.exists /\ doc.isRemoved) =>
                       (joins'[j].pc = "failed" /\ joins'[j].err = "AlreadyRemoved")
                /\ (doc.exists /\ ~doc.isRemoved /\ ~doc.isOpen) =>
                       (joins'[j].pc = "failed" /\ joins'[j].err = "Private")]_vars

\* C2 witness: a join has failed with AlreadyRemoved on a room that is both
\* removed and not open, and another join of that room had succeeded.
C2_Witness ==
    \E j \in JoinIds, k \in JoinIds :
        /\ joins[j].pc = "failed" /\ joins[j].err = "AlreadyRemoved"
        /\ joins[k].pc = "done" /\ joins[k].id = joins[j].id
        /\ ChatRooms[joins[j].id].isRemoved /\ ~ChatRooms[joins[j].id].isOpen

\* C4: no room has more than two members, and no join succeeds on a room that
\* already had two.
C4_AtMostTwoMembers ==
    /\ \A r \in LiveRooms : Len(ChatRooms[r].members) <= 2
    /\ \A j \in JoinIds : joins[j].pc = "done" => Len(joins[j].room.members) <= 2

\* C6: every soft remove leaves the document removed, throws nothing and
\* changes no other field; the document stays removed after it.
C6_SoftRemoveIdempotent ==
    /\ [](\A r \in RoomIds : softRemoves[r] >= 1 => (ChatRooms[r].exists /\ ChatRooms[r].isRemoved))
    /\ [][\A r \in RoomIds : softRemoves'[r] # softRemoves[r] =>
            /\ thrown' = thrown
            /\ ChatRooms'[r].isRemoved
            /\ ChatRooms'[r].title = ChatRooms[r].title
            /\ ChatRooms'[r].members = ChatRooms[r].members
            /\ ChatRooms'[r].isOpen = ChatRooms[r].isOpen
            /\ ChatRooms'[r].createdAt = ChatRooms[r].createdAt]_vars

\* C6 witness: a room soft-removed twice, the second time when it was removed
\* already.
C6_Witness ==
    \E r \in LiveRooms : softRemoves[r] = 2 /\ ChatRooms[r].isRemoved /\ thrown = NoError

\* C9: a removed room document never changes again.
C9_RemovedIsTerminal ==
    [][\A r \in RoomIds :
        (ChatRooms[r].exists /\ ChatRooms[r].isRemoved) => ChatRooms'[r] = ChatRooms[r]]_vars

\* C5: a message is persisted only if its from is a member of the room's
\* persisted member list, and a rejected send throws a MessageError.
C5_NonMemberSendFails ==
    /\ [][\A m \in MsgIds :
            (~messages[m].exists /\ messages'[m].exists) =>
                messages'[m].from \in MemberIds(ChatRooms[messages'[m].room].members)]_vars
    /\ [](thrown.op = "sendMessage" => thrown.err = "MessageError")

\* The addToMemberConversations calls in flight for a room, and for a user.
indexingRoom(r) == {t \in BagToSet(indexing) : t.chatKey = r}
indexingUser(u) == {t \in BagToSet(indexing) : t.memberId = u}

\* C3: once a room created with two members has no index call in flight, it is
\* open, not removed, and the index record of each member holds its id.
C3_CreateIndexesMembers ==
    \A r \in LiveRooms :
        (Len(ChatRooms[r].members) = 2 /\ indexingRoom(r) = {}) =>
            /\ ChatRooms[r].isOpen /\ ~ChatRooms[r].isRemoved
            /\ \A u \in MemberIds(ChatRooms[r].members) :
                   UsersChat[u].exists /\ r \in UsersChat[u].keys

\* C10: once the index calls for a user have completed, the user's record
\* holds every two rooms the calls were made for.
C10_ConcurrentIndexCalls ==
    \A u \in Users, r1 \in LiveRooms, r2 \in LiveRooms :
        ( /\ r1 # r2
          /\ u \in MemberIds(ChatRooms[r1].members)
          /\ u \in MemberIds(ChatRooms[r2].members)
          /\ indexingUser(u) = {} )
            => {r1, r2} \subseteq UsersChat[u].keys

\* C7: removeMutualChatRooms with softRemove changes only rooms whose ids are
\* in both records it read, only by setting isRemoved, and once its updates are
\* applied every such room is removed.
C7_MutualOnly ==
    /\ [][\A r \in RoomIds :
            (ChatRooms[r].exists /\ ChatRooms'[r] # ChatRooms[r]) =>
                /\ mutual.softRemove
                /\ r \in mutual.userARef.keys \cap mutual.userBRef.keys
                /\ ChatRooms'[r] = [ChatRooms[r] EXCEPT !.isRemoved = TRUE]]_vars
    /\ []((mutual.pc = "resolved" /\ mutual.softRemove /\ mutualWrites = {}) =>
            \A r \in mutual.userARef.keys \cap mutual.userBRef.keys : ChatRooms[r].isRemoved)

\* C7 witness: userA's rooms are {1,2,3}, userB's are {2,3,4}; the call has
\* completed, rooms 2 and 3 are removed and rooms 1 and 4 are not.
C7_Witness ==
    /\ mutual.pc = "resolved" /\ mutual.softRemove /\ mutualWrites = {}
    /\ mutual.userARef.keys = {1, 2, 3} /\ mutual.userBRef.keys = {2, 3, 4}
    /\ ChatRooms[2].isRemoved /\ ChatRooms[3].isRemoved
    /\ ~ChatRooms[1].isRemoved /\ ~ChatRooms[4].isRemoved

\* C8: once updateBody has invoked its callback, the stored message has the
\* new body and an updatedAt not before its createdAt.
C8_UpdateRoundTrip ==
    \A m \in MsgIds :
        edits[m].cb # "" =>
            /\ messages[m].body = edits[m].cb
            /\ messages[m].updated /\ messages[m].updatedAt >= messages[m].createdAt

\* A title the interface rejects: empty, or not a string.
invalidTitle(title) == title.t # "string" \/ title.v = ""

\* A member the interface rejects: userId empty or not a string, username or
\* photo present but not a string.
invalidMember(m) ==
    \/ m.userId.t # "string" \/ m.userId.v = ""
    \/ (m.username # Undefined /\ m.username.t # "string")
    \/ (m.photo # Undefined /\ m.photo.t # "string")

\* C13: a createChatRoom call with an invalid title or an invalid member throws
\* ChatRoomError and writes nothing: no room document, no index call, no index
\* record.
C13_InvalidCreateWritesNothing ==
    [][\A title \in CreateTitles, members \in CreateMembers :
          ( /\ invalidTitle(title) \/ \E i \in 1 .. Len(members) : invalidMember(members[i])
            /\ createChatRoom(title, members) )
          => /\ thrown' = [op |-> "createChatRoom", err |-> "ChatRoomError"]
             /\ UNCHANGED <<ChatRooms, UsersChat, indexing>>]_vars

\* C14: a removeMutualChatRooms call that found no record for userA or for
\* userB ends rejected with the TypeError, has issued no room update, and no
\* room document changes after it.
C14_MissingRecordRejects ==
    /\ [](( /\ mutual.pc \in {"resolved", "rejected"}
            /\ ~mutual.userARef.exists \/ ~mutual.userBRef.exists )
          => /\ mutual.pc = "rejected" /\ mutual.err = "TypeError"
             /\ mutualWrites = {})
    /\ [][( /\ mutual.pc \in {"resolved", "rejected"}
            /\ ~mutual.userARef.exists \/ ~mutual.userBRef.exists )
          => \A r \in RoomIds : ChatRooms[r].exists => ChatRooms'[r] = ChatRooms[r]]_vars

\* C14 witness: userA has a record with a room in it, userB has none, and the
\* soft removeMutualChatRooms call has been rejected with every room as it was.
C14_Witness ==
    /\ mutual.pc = "rejected" /\ mutual.softRemove
    /\ mutual.userARef.exists /\ mutual.userARef.keys # {}
    /\ ~mutual.userBRef.exists
    /\ \A r \in mutual.userARef.keys : ChatRooms[r].exists /\ ~ChatRooms[r].isRemoved

\* C16: a message is persisted only with a from that is, at that moment, the
\* userId of an entry of the member list of the room's document.
C16_FromIsPersistedMember ==
    [][\A m \in MsgIds :
          (messages'[m].exists /\ ~messages[m].exists) =>
              \E i \in 1 .. Len(ChatRooms'[messages'[m].room].members) :
                  ChatRooms'[messages'[m].room].members[i] = messages'[m].from]_vars

\* C18: in the step in which setNewTitle invokes its callback with a title, the
\* room document has that title.
C18_TitleCallbackAfterPersist ==
    [][\A j \in JoinIds :
          titleOps'[j].cb # titleOps[j].cb =>
              ChatRooms'[joins[j].id].title = titleOps'[j].cb]_vars

\* C19: every room id in a user's index record that names an existing room
\* document names one whose member list has the user.
C19_IndexedAreMembers ==
    \A u \in Users, r \in RoomIds :
        (UsersChat[u].exists /\ r \in UsersChat[u].keys /\ ChatRooms[r].exists)
            => u \in MemberIds(ChatRooms[r].members)

\* C20: the step in which a join fails changes no room document, no index
\* record and starts no index call, and a failed join takes no further step.
C20_FailedJoinWritesNothing ==
    /\ [][\A j \in JoinIds :
            (joins[j].pc = "idle" /\ joins'[j].pc = "failed")
                => UNCHANGED <<ChatRooms, UsersChat, indexing>>]_vars
    /\ [][\A j \in JoinIds : joins[j].pc = "failed" => joins'[j] = joins[j]]_vars

\* C20 witness: a join has failed with Private on a room another user had
\* joined; the joiner is not in the member list, has no index record of the
\* room and no index call in flight.
C20_Witness ==
    \E j \in JoinIds :
        /\ joins[j].pc = "failed" /\ joins[j].err = "Private"
        /\ ChatRooms[joins[j].id].exists /\ ~ChatRooms[joins[j].id].isOpen
        /\ joins[j].userId \notin MemberIds(ChatRooms[joins[j].id].members)
        /\ joins[j].id \notin UsersChat[joins[j].userId].keys
        /\ indexingUser(joins[j].userId) = {}

\* C11: once every room load of a getUserChatRooms call has returned without
\* a TypeError, rooms that do not exist having been skipped, onComplete has
\* been invoked once with the rooms that exist.
C11_DanglingSkipped ==
    (listing.pc = "loading" /\ listing.pending = {} /\ ~listing.threw)
        => /\ listing.calls = 1 /\ listing.err = "none"
           /\ listing.chats = listing.list

\* C17: onComplete is invoked at most once; when it is invoked with rooms, no
\* room load is outstanding and the list has one room for each key of the
\* index record, each key once.
C17_ListCallbackOnce ==
    /\ [](listing.calls <= 1)
    /\ []((listing.calls > 0 /\ listing.err = "none")
            => /\ listing.pending = {}
               /\ Len(listing.chats) = Cardinality(listing.ids)
               /\ {listing.chats[i] : i \in 1 .. Len(listing.chats)} = listing.ids)
    /\ [][listing'.calls > listing.calls => listing'.pending = {}]_vars

\* C17 witness: a call for a user with two rooms has invoked onComplete once,
\* with both.
C17_Witness ==
    /\ listing.calls = 1 /\ listing.err = "none"
    /\ Cardinality(listing.ids) = 2 /\ Len(listing.chats) = 2

\* C12: the action of getMessagesAndListen has been invoked for exactly the
\* documents the snapshots reported as added, once each and in their order;
\* documents reported as modified add nothing.
C12_EveryAddedDelivered ==
    listener.received = listener.added

\* C15: once the caller has cancelled the listener, action is not invoked again.
C15_CancelStopsDelivery ==
    [][listener.cancelled => listener'.received = listener.received]_vars

====
